---- MODULE Spec2Model ----
(***************************************************************************)
(* TaskMaster: file-backed task store (internal/storage, FileStorage) and  *)
(* the task service on top of it (internal/app, App).                      *)
(*                                                                         *)
(* The project directory .taskmaster is the variable dir: a function from  *)
(* the file names present to their contents.  File names are sequences of  *)
(* one-character strings so that fmt.Sprintf("task_%d.json"), HasPrefix,   *)
(* TrimPrefix and strconv.ParseInt are computed as the code computes them. *)
(***************************************************************************)
EXTENDS Integers, Sequences, FiniteSets, TLC

VARIABLES
    dir,        \* the .taskmaster directory: file name -> contents
    nextID,     \* FileStorage.nextID of the store instance
    inited,     \* Init has returned nil on this instance (main.go runs it first)
    now,        \* the wall clock time.Now() reads (it advances in SpecClock)
    ret,        \* what the last call returned to its caller
    assigned,   \* history: the ids successful creates have returned
    mu,         \* FileStorage.mu: the worker holding it, 0 when it is free
    calls,      \* per worker, the store call it is in the middle of
    skipped,    \* history: ids taken by a create that never wrote its record
    base,       \* history: the directory when the concurrent calls began
    insts       \* per process, the FileStorage instance it built for itself

\* the state of calls that are in the middle of their steps
inflight == <<mu, calls, skipped, base, insts>>

vars == <<dir, nextID, inited, now, ret, assigned, inflight>>

-----------------------------------------------------------------------------
(* Bounds of the model *)

\* creates are enabled while the in-memory counter is below this value
MaxNextID == 3

\* the clock read by time.Now() runs over 1..MaxTime where it advances
MaxTime == 2
\* where the clock advances, creates are enabled while the in-memory counter
\* is below this value
MaxClockNextID == 2

\* ids the callers pass to get / delete / complete / progress / details
IdArgs == 1..(MaxNextID - 1)
\* 0 stands for the zero time.Time (no due date)
ZeroTime == 0
\* progress values the callers pass: both ends of the range, and just outside
ProgressArgs == {-1, 0, 100, 101}

-----------------------------------------------------------------------------
(* models.Priority *)

Low == 0
Medium == 1
High == 2
Critical == 3

\* Go strings are sequences of bytes, one one-character string per byte;
\* "0xFF" stands for a byte that is no valid UTF-8, and "U+FFFD" for the
\* encoding of the Unicode replacement rune.
InvalidByte == "0xFF"
ReplacementRune == "U+FFFD"

\* (title, description, due date, priority) as the callers pass them
DetailArgs ==
    {<<<<"a">>, <<>>, ZeroTime, Low>>,
     <<<<"b">>, <<"d">>, 7, Critical>>,
     <<<<>>, <<"d">>, 7, High>>,
     <<<<"a", InvalidByte>>, <<>>, ZeroTime, Medium>>}

-----------------------------------------------------------------------------
(* File names *)

Digits == <<"0", "1", "2", "3", "4", "5", "6", "7", "8", "9">>

TaskPrefix == <<"t", "a", "s", "k", "_">>
JsonSuffix == <<".", "j", "s", "o", "n">>
counterFile == <<"c", "o", "u", "n", "t", "e", "r">> \o JsonSuffix

\* fmt verb %d for a non-negative integer
RECURSIVE FormatNat(_)
FormatNat(n) ==
    IF n < 10 THEN <<Digits[n + 1]>>
    ELSE FormatNat(n \div 10) \o <<Digits[(n % 10) + 1]>>

\* fmt verb %d
FormatInt(n) == IF n < 0 THEN <<"-">> \o FormatNat(0 - n) ELSE FormatNat(n)

getTaskFilename(id) == TaskPrefix \o FormatInt(id) \o JsonSuffix

\* strings.HasPrefix
HasPrefix(s, prefix) ==
    Len(s) >= Len(prefix) /\ SubSeq(s, 1, Len(prefix)) = prefix

\* strings.HasSuffix
HasSuffix(s, suffix) ==
    Len(s) >= Len(suffix) /\ SubSeq(s, Len(s) - Len(suffix) + 1, Len(s)) = suffix

\* strings.TrimPrefix
TrimPrefix(s, prefix) ==
    IF HasPrefix(s, prefix) THEN SubSeq(s, Len(prefix) + 1, Len(s)) ELSE s

\* strings.TrimSuffix
TrimSuffix(s, suffix) ==
    IF HasSuffix(s, suffix) THEN SubSeq(s, 1, Len(s) - Len(suffix)) ELSE s

DigitValue(c) == CHOOSE v \in 0..9 : Digits[v + 1] = c

IsDigit(c) == \E v \in 0..9 : Digits[v + 1] = c

RECURSIVE ParseDigits(_)
ParseDigits(s) ==
    IF s = <<>> THEN 0
    ELSE 10 * ParseDigits(SubSeq(s, 1, Len(s) - 1)) + DigitValue(s[Len(s)])

\* strconv.ParseInt(s, 10, 64): an optional sign, then one or more decimal
\* digits.  The id strings of the model stay far below 2^63, where the code
\* reports a range error.
ParseInt(s) ==
    LET signed == s # <<>> /\ s[1] \in {"+", "-"}
        body == IF signed THEN Tail(s) ELSE s
    IN  IF body = <<>> \/ \E i \in 1..Len(body) : ~IsDigit(body[i])
        THEN [err |-> "syntax", n |-> 0]
        ELSE [err |-> "nil",
              n |-> IF signed /\ s[1] = "-" THEN 0 - ParseDigits(body)
                    ELSE ParseDigits(body)]

\* the characters of the model's file names, in byte order
Alphabet ==
    <<"+", "-", ".", "0", "1", "2", "3", "4", "5", "6", "7", "8", "9", "_",
      "a", "b", "c", "d", "e", "f", "g", "h", "i", "j", "k", "l", "m", "n",
      "o", "p", "q", "r", "s", "t", "u", "v", "w", "x", "y", "z">>

ByteOf(c) == CHOOSE i \in 1..Len(Alphabet) : Alphabet[i] = c

\* Go's string comparison a < b
RECURSIVE StringLess(_, _)
StringLess(a, b) ==
    IF b = <<>> THEN FALSE
    ELSE IF a = <<>> THEN TRUE
    ELSE IF a[1] # b[1] THEN ByteOf(a[1]) < ByteOf(b[1])
    ELSE StringLess(Tail(a), Tail(b))

-----------------------------------------------------------------------------
(* File contents and their JSON encodings *)

GarbageData == [kind |-> "garbage"]
DirEntry == [kind |-> "dir"]

\* the zero value of models.Task
ZeroTask ==
    [ID |-> 0, Title |-> <<>>, Description |-> <<>>, DueDate |-> ZeroTime,
     Priority |-> 0, Completed |-> FALSE, Progress |-> 0,
     CreatedAt |-> ZeroTime, UpdatedAt |-> ZeroTime]

\* encoding/json writes a Go string as a JSON string coerced to valid UTF-8:
\* every invalid byte is replaced by the replacement rune
ToValidUTF8(s) ==
    [i \in 1..Len(s) |-> IF s[i] = InvalidByte THEN ReplacementRune ELSE s[i]]

\* the encoding with the due date left at its zero value
MarshalTask_DueDateDropped(task) ==
    [kind |-> "task", id |-> task.ID, title |-> ToValidUTF8(task.Title),
     description |-> ToValidUTF8(task.Description), due_date |-> ZeroTime,
     priority |-> task.Priority, completed |-> task.Completed,
     progress |-> task.Progress, created_at |-> task.CreatedAt,
     updated_at |-> task.UpdatedAt]

\* json.MarshalIndent of a models.Task, by the struct's json tags
MarshalTask(task) ==
    [kind |-> "task", id |-> task.ID, title |-> ToValidUTF8(task.Title),
     description |-> ToValidUTF8(task.Description), due_date |-> task.DueDate,
     priority |-> task.Priority, completed |-> task.Completed,
     progress |-> task.Progress, created_at |-> task.CreatedAt,
     updated_at |-> task.UpdatedAt]

\* json.Unmarshal into a models.Task: an object without the task's keys
\* (the counter record) decodes to the zero Task, other bytes do not decode
UnmarshalTask(data) ==
    IF data.kind = "task"
    THEN [err |-> "nil",
          task |-> [ID |-> data.id, Title |-> data.title,
                    Description |-> data.description, DueDate |-> data.due_date,
                    Priority |-> data.priority, Completed |-> data.completed,
                    Progress |-> data.progress, CreatedAt |-> data.created_at,
                    UpdatedAt |-> data.updated_at]]
    ELSE IF data.kind = "counter"
    THEN [err |-> "nil", task |-> ZeroTask]
    ELSE [err |-> "decode", task |-> ZeroTask]

\* json.MarshalIndent of the counter struct
MarshalCounter(n) == [kind |-> "counter", next_id |-> n]

\* json.Unmarshal into the counter struct
UnmarshalCounter(data) ==
    IF data.kind = "counter" THEN [err |-> "nil", NextID |-> data.next_id]
    ELSE IF data.kind = "task" THEN [err |-> "nil", NextID |-> 0]
    ELSE [err |-> "decode", NextID |-> 0]

-----------------------------------------------------------------------------
(* The file system calls the store makes *)

\* os.ReadFile
ReadFile(d, name) ==
    IF name \notin DOMAIN d THEN [err |-> "not_exist", data |-> GarbageData]
    ELSE IF d[name].kind = "dir" THEN [err |-> "io", data |-> GarbageData]
    ELSE [err |-> "nil", data |-> d[name]]

\* os.WriteFile, when the write succeeds
WriteFile(d, name, data) ==
    [n \in (DOMAIN d) \cup {name} |-> IF n = name THEN data ELSE d[n]]

\* os.Remove, when it succeeds
Remove(d, name) == [n \in (DOMAIN d) \ {name} |-> d[n]]

-----------------------------------------------------------------------------
(* FileStorage *)

\* os.WriteFile returning an error: the file is untouched when it could not
\* be opened, and is left truncated when the write after the open failed
WriteFileFailed(d, name, truncated) ==
    IF truncated THEN WriteFile(d, name, GarbageData) ELSE d

\* saveCounter that persists the value the counter had before the increment
saveCounter_BeforeIncrement(d, n) == WriteFile(d, counterFile, MarshalCounter(n - 1))

\* saveCounter: the directory after the counter value n is persisted
saveCounter(d, n) == WriteFile(d, counterFile, MarshalCounter(n))

\* saveTask that leaves a record file that is already there as it is
saveTask_KeepsExisting(d, task) ==
    IF getTaskFilename(task.ID) \in DOMAIN d THEN d
    ELSE WriteFile(d, getTaskFilename(task.ID), MarshalTask(task))

\* saveTask: the directory after the task's record is overwritten
saveTask(d, task) == WriteFile(d, getTaskFilename(task.ID), MarshalTask(task))

\* GetTask: [err, task]
GetTask(d, id) ==
    LET r == ReadFile(d, getTaskFilename(id)) IN
    IF r.err = "not_exist" THEN [err |-> "not_found", task |-> ZeroTask]
    ELSE IF r.err # "nil" THEN [err |-> "read", task |-> ZeroTask]
    ELSE UnmarshalTask(r.data)

\* Init that starts a new counter whether or not a counter file exists
FileStorageInit_AlwaysResets(d, nid) ==
    [dir |-> saveCounter(d, 1), nextID |-> 1, err |-> "nil"]

\* Init whose new counter starts at 0
FileStorageInit_StartsAtZero(d, nid) ==
    LET counter == ReadFile(d, counterFile) IN
    IF counter.err = "not_exist"
    THEN [dir |-> saveCounter(d, 0), nextID |-> 0, err |-> "nil"]
    ELSE [dir |-> d, nextID |-> UnmarshalCounter(counter.data).NextID, err |-> "nil"]

\* Init: [dir, nextID, err]
FileStorageInit(d, nid) ==
    LET counter == ReadFile(d, counterFile) IN
    IF counter.err = "not_exist"
    THEN [dir |-> saveCounter(d, 1), nextID |-> 1, err |-> "nil"]
    ELSE IF counter.err # "nil"
    THEN [dir |-> d, nextID |-> nid, err |-> "read"]
    ELSE LET counterData == UnmarshalCounter(counter.data) IN
         IF counterData.err # "nil"
         THEN [dir |-> d, nextID |-> nid, err |-> "decode"]
         ELSE [dir |-> d, nextID |-> counterData.NextID, err |-> "nil"]

\* CreateTask without the saveCounter call
CreateTask_CounterNotSaved(d, nid, task, t) ==
    LET stamped == [task EXCEPT !.ID = nid, !.CreatedAt = t, !.UpdatedAt = t]
    IN  [dir |-> saveTask(d, stamped), nextID |-> nid + 1, err |-> "nil",
         task |-> stamped]

\* CreateTask, every write succeeding: [dir, nextID, err, task]
CreateTask(d, nid, task, t) ==
    LET stamped == [task EXCEPT !.ID = nid, !.CreatedAt = t, !.UpdatedAt = t]
        d1 == saveCounter(d, nid + 1)
    IN  [dir |-> saveTask(d1, stamped), nextID |-> nid + 1, err |-> "nil",
         task |-> stamped]

\* CreateTask when saveCounter returns an error: the in-memory counter has
\* advanced, the task is not written
CreateTaskCounterWriteFails(d, nid, task, truncated) ==
    [dir |-> WriteFileFailed(d, counterFile, truncated), nextID |-> nid + 1,
     err |-> "write"]

\* CreateTask when saveTask returns an error: the counter is persisted
CreateTaskRecordWriteFails(d, nid, task, truncated) ==
    [dir |-> WriteFileFailed(saveCounter(d, nid + 1), getTaskFilename(nid), truncated),
     nextID |-> nid + 1, err |-> "write"]

\* UpdateTask without the GetTask call that checks existence
UpdateTask_NoExistenceCheck(d, task, t) ==
    [dir |-> saveTask(d, [task EXCEPT !.UpdatedAt = t]), err |-> "nil"]

\* UpdateTask: [dir, err]
UpdateTask(d, task, t) ==
    LET g == GetTask(d, task.ID) IN
    IF g.err # "nil" THEN [dir |-> d, err |-> g.err]
    ELSE [dir |-> saveTask(d, [task EXCEPT !.UpdatedAt = t]), err |-> "nil"]

\* DeleteTask without the os.Remove call
DeleteTask_NotRemoved(d, id) ==
    IF getTaskFilename(id) \notin DOMAIN d THEN [dir |-> d, err |-> "not_found"]
    ELSE [dir |-> d, err |-> "nil"]

\* DeleteTask: [dir, err]
DeleteTask(d, id) ==
    IF getTaskFilename(id) \notin DOMAIN d THEN [dir |-> d, err |-> "not_found"]
    ELSE [dir |-> Remove(d, getTaskFilename(id)), err |-> "nil"]

\* CompleteTask without the UpdatedAt assignment
CompleteTask_NotStamped(d, id, t) ==
    LET g == GetTask(d, id) IN
    IF g.err # "nil" THEN [dir |-> d, err |-> g.err]
    ELSE [dir |-> saveTask(d, [g.task EXCEPT !.Completed = TRUE,
                                             !.Progress = 100]),
          err |-> "nil"]

\* CompleteTask: [dir, err]
CompleteTask(d, id, t) ==
    LET g == GetTask(d, id) IN
    IF g.err # "nil" THEN [dir |-> d, err |-> g.err]
    ELSE [dir |-> saveTask(d, [g.task EXCEPT !.Completed = TRUE,
                                             !.Progress = 100,
                                             !.UpdatedAt = t]),
          err |-> "nil"]

\* UpdateTaskProgress without the "progress == 100" branch
UpdateTaskProgress_NeverCompletes(d, id, progress, t) ==
    LET g == GetTask(d, id) IN
    IF g.err # "nil" THEN [dir |-> d, err |-> g.err]
    ELSE [dir |-> saveTask(d, [g.task EXCEPT !.Progress = progress,
                                             !.UpdatedAt = t]),
          err |-> "nil"]

\* UpdateTaskProgress with the completed flag following the progress value
UpdateTaskProgress_FlagFollowsProgress(d, id, progress, t) ==
    LET g == GetTask(d, id) IN
    IF g.err # "nil" THEN [dir |-> d, err |-> g.err]
    ELSE [dir |-> saveTask(d, [g.task EXCEPT
                                 !.Progress = progress,
                                 !.UpdatedAt = t,
                                 !.Completed = (progress = 100)]),
          err |-> "nil"]

\* UpdateTaskProgress: [dir, err]
UpdateTaskProgress(d, id, progress, t) ==
    LET g == GetTask(d, id) IN
    IF g.err # "nil" THEN [dir |-> d, err |-> g.err]
    ELSE [dir |-> saveTask(d, [g.task EXCEPT
                                 !.Progress = progress,
                                 !.UpdatedAt = t,
                                 !.Completed = IF progress = 100 THEN TRUE ELSE @]),
          err |-> "nil"]

\* os.ReadDir: the names of the entries, sorted by file name
RECURSIVE ReadDirOf(_)
ReadDirOf(names) ==
    IF names = {} THEN <<>>
    ELSE LET first == CHOOSE n \in names :
                          \A m \in names \ {n} : StringLess(n, m)
         IN  <<first>> \o ReadDirOf(names \ {first})

ReadDir(d) == ReadDirOf(DOMAIN d)

\* sort.Slice by ID.  For the short slices of the model (fewer than 12
\* elements) Go's pdqsort is its insertion sort: equal ids keep their order.
RECURSIVE InsertByID(_, _)
InsertByID(sorted, task) ==
    IF sorted = <<>> THEN <<task>>
    ELSE IF task.ID < sorted[Len(sorted)].ID
    THEN InsertByID(SubSeq(sorted, 1, Len(sorted) - 1), task)
             \o <<sorted[Len(sorted)]>>
    ELSE sorted \o <<task>>

RECURSIVE SortByID(_)
SortByID(tasks) ==
    IF tasks = <<>> THEN <<>>
    ELSE InsertByID(SortByID(SubSeq(tasks, 1, Len(tasks) - 1)), tasks[Len(tasks)])

\* the loop of GetAllTasks over the directory entries: the tasks appended
RECURSIVE LoadEntries(_, _)
LoadEntries(d, files) ==
    IF files = <<>> THEN <<>>
    ELSE
      LET name == files[1]
          rest == LoadEntries(d, Tail(files))
          idStr == TrimSuffix(TrimPrefix(name, TaskPrefix), JsonSuffix)
          id == ParseInt(idStr)
      IN  IF d[name].kind = "dir" \/ ~HasPrefix(name, TaskPrefix)
             \/ ~HasSuffix(name, JsonSuffix)
          THEN rest
          ELSE IF id.err # "nil" THEN rest
          ELSE IF GetTask(d, id.n).err # "nil" THEN rest
          ELSE <<GetTask(d, id.n).task>> \o rest

\* GetAllTasks: the slice returned (the error is nil: the directory exists)
GetAllTasks(d) == SortByID(LoadEntries(d, ReadDir(d)))

-----------------------------------------------------------------------------
(* What a call returns: the error (by the message the code builds), the    *)
(* *Task returned (a sequence of length 0 for nil) and the slice returned  *)

Return(op, id, err, task, tasks) ==
    [op |-> op, id |-> id, err |-> err, task |-> task, tasks |-> tasks]

\* the models.Task literal App.CreateTask hands to the store
NewTask(title, desc, dueDate, priority) ==
    [ZeroTask EXCEPT !.Title = title, !.Description = desc,
                     !.DueDate = dueDate, !.Priority = priority,
                     !.Progress = 0, !.Completed = FALSE]

\* the assignments merging instead of replacing: an empty description and an
\* unset due date keep the stored ones
WithDetails_Merged(task, title, desc, dueDate, priority) ==
    [task EXCEPT !.Title = title,
                 !.Description = IF desc = <<>> THEN @ ELSE desc,
                 !.DueDate = IF dueDate = ZeroTime THEN @ ELSE dueDate,
                 !.Priority = priority]

\* the four assignments of App.UpdateTaskDetails
WithDetails(task, title, desc, dueDate, priority) ==
    [task EXCEPT !.Title = title, !.Description = desc,
                 !.DueDate = dueDate, !.Priority = priority]

\* the range check without its upper bound
ProgressRejected_NoUpperBound(progress) == progress < 0

\* the range check with both ends excluded
ProgressRejected_EndsExcluded(progress) == progress <= 0 \/ progress >= 100

\* the range check of App.UpdateTaskProgress
ProgressRejected(progress) == progress < 0 \/ progress > 100

\* the title check of App.CreateTask
TitleRejected(title) == title = <<>>

-----------------------------------------------------------------------------
(* The state after NewFileStorage on a new project directory *)

\* the goroutines (or processes) that can be in the middle of a call
Workers == {1, 2}

\* a worker that is in no call
IdleCall == [pc |-> "idle", op |-> "none", id |-> 0, arg |-> <<>>, task |-> <<>>]

\* a process that has not built its store instance yet
NoInstance == [nextID |-> 0, loaded |-> 0]

\* no call is in the middle of its steps
InitInflight ==
    /\ mu = 0
    /\ calls = [w \in Workers |-> IdleCall]
    /\ skipped = {}
    /\ base = <<>>
    /\ insts = [w \in Workers |-> NoInstance]

Init ==
    /\ dir = <<>>
    /\ nextID = 0
    /\ inited = FALSE
    /\ now = 1
    /\ ret = Return("new", 0, "nil", <<>>, <<>>)
    /\ assigned = {}
    /\ InitInflight

-----------------------------------------------------------------------------
(* Actions: main.go runs Init on the store before any service call *)

\* App.Initialize / FileStorage.Init; running it again models the next
\* invocation of the program on the same directory
Initialize ==
    LET r == FileStorageInit(dir, nextID) IN
    /\ dir' = r.dir
    /\ nextID' = r.nextID
    /\ inited' = (inited \/ r.err = "nil")
    /\ ret' = Return("init", 0, r.err, <<>>, <<>>)
    /\ UNCHANGED <<now, assigned, inflight>>

\* App.CreateTask rejecting the title
AppCreateTaskRejected(title, desc, dueDate, priority) ==
    /\ inited
    /\ TitleRejected(title)
    /\ ret' = Return("create", 0, "validation", <<>>, <<>>)
    /\ UNCHANGED <<dir, nextID, inited, now, assigned, inflight>>

\* App.CreateTask handing the task to FileStorage.CreateTask
AppCreateTask(title, desc, dueDate, priority) ==
    /\ inited
    /\ nextID < MaxNextID
    /\ ~TitleRejected(title)
    /\ LET r == CreateTask(dir, nextID, NewTask(title, desc, dueDate, priority), now)
       IN  /\ dir' = r.dir
           /\ nextID' = r.nextID
           /\ ret' = Return("create", r.task.ID, r.err, <<r.task>>, <<>>)
           /\ assigned' = assigned \cup {r.task.ID}
    /\ UNCHANGED <<inited, now, inflight>>

\* App.GetTask
AppGetTask(id) ==
    /\ inited
    /\ LET g == GetTask(dir, id) IN
       ret' = Return("get", id, g.err, IF g.err = "nil" THEN <<g.task>> ELSE <<>>, <<>>)
    /\ UNCHANGED <<dir, nextID, inited, now, assigned, inflight>>

\* App.GetAllTasks
AppGetAllTasks ==
    /\ inited
    /\ ret' = Return("list", 0, "nil", <<>>, GetAllTasks(dir))
    /\ UNCHANGED <<dir, nextID, inited, now, assigned, inflight>>

\* App.DeleteTask
AppDeleteTask(id) ==
    /\ inited
    /\ LET r == DeleteTask(dir, id) IN
       /\ dir' = r.dir
       /\ ret' = Return("delete", id, r.err, <<>>, <<>>)
    /\ UNCHANGED <<nextID, inited, now, assigned, inflight>>

\* App.CompleteTask
AppCompleteTask(id) ==
    /\ inited
    /\ LET r == CompleteTask(dir, id, now) IN
       /\ dir' = r.dir
       /\ ret' = Return("complete", id, r.err, <<>>, <<>>)
    /\ UNCHANGED <<nextID, inited, now, assigned, inflight>>

\* App.UpdateTaskProgress
AppUpdateTaskProgress(id, progress) ==
    /\ inited
    /\ IF ProgressRejected(progress)
       THEN /\ ret' = Return("progress", id, "validation", <<>>, <<>>)
            /\ dir' = dir
       ELSE LET r == UpdateTaskProgress(dir, id, progress, now) IN
            /\ dir' = r.dir
            /\ ret' = Return("progress", id, r.err, <<>>, <<>>)
    /\ UNCHANGED <<nextID, inited, now, assigned, inflight>>

\* App.UpdateTaskDetails
AppUpdateTaskDetails(id, title, desc, dueDate, priority) ==
    /\ inited
    /\ LET g == GetTask(dir, id) IN
       IF g.err # "nil"
       THEN /\ ret' = Return("details", id, g.err, <<>>, <<>>)
            /\ dir' = dir
       ELSE LET r == UpdateTask(dir, WithDetails(g.task, title, desc, dueDate, priority), now)
            IN  /\ dir' = r.dir
                /\ ret' = Return("details", id, r.err, <<>>, <<>>)
    /\ UNCHANGED <<nextID, inited, now, assigned, inflight>>

Next ==
    \/ Initialize
    \/ \E a \in DetailArgs : AppCreateTaskRejected(a[1], a[2], a[3], a[4])
    \/ \E a \in DetailArgs : AppCreateTask(a[1], a[2], a[3], a[4])
    \/ \E id \in IdArgs : AppGetTask(id)
    \/ AppGetAllTasks
    \/ \E id \in IdArgs : AppDeleteTask(id)
    \/ \E id \in IdArgs : AppCompleteTask(id)
    \/ \E id \in IdArgs, progress \in ProgressArgs : AppUpdateTaskProgress(id, progress)
    \/ \E id \in IdArgs, a \in DetailArgs :
          AppUpdateTaskDetails(id, a[1], a[2], a[3], a[4])

Spec == Init /\ [][Next]_vars

\* App.CreateTask when a write of FileStorage.CreateTask fails
AppCreateTaskWriteFails(title, desc, dueDate, priority, atCounter, truncated) ==
    /\ inited
    /\ nextID < MaxNextID
    /\ ~TitleRejected(title)
    /\ LET task == NewTask(title, desc, dueDate, priority)
           r == IF atCounter
                THEN CreateTaskCounterWriteFails(dir, nextID, task, truncated)
                ELSE CreateTaskRecordWriteFails(dir, nextID, task, truncated)
       IN  /\ dir' = r.dir
           /\ nextID' = r.nextID
           /\ ret' = Return("create", 0, r.err, <<>>, <<>>)
    /\ UNCHANGED <<inited, now, assigned, inflight>>

\* the service calls, with creates whose writes can fail
NextFail ==
    \/ Next
    \/ \E a \in DetailArgs, atCounter \in BOOLEAN, truncated \in BOOLEAN :
          AppCreateTaskWriteFails(a[1], a[2], a[3], a[4], atCounter, truncated)

SpecFail == Init /\ [][NextFail]_vars

\* the tasks a caller of the store's update passes: built by the caller,
\* with the id of the record to overwrite
UpdateArgs ==
    {[NewTask(a[1], a[2], a[3], a[4]) EXCEPT !.ID = id, !.CreatedAt = 1, !.UpdatedAt = 1] :
        id \in IdArgs, a \in DetailArgs}

\* FileStorage.UpdateTask called on the store directly
StoreUpdateTask(task) ==
    /\ inited
    /\ LET r == UpdateTask(dir, task, now) IN
       /\ dir' = r.dir
       /\ ret' = Return("update", task.ID, r.err, <<>>, <<>>)
    /\ UNCHANGED <<nextID, inited, now, assigned, inflight>>

\* the service calls, and the store's update called directly
NextStore ==
    \/ Next
    \/ \E task \in UpdateArgs : StoreUpdateTask(task)

SpecStore == Init /\ [][NextStore]_vars

-----------------------------------------------------------------------------
(* Steps and observations the properties speak about *)

\* the step is a call of op with id argument id (read off ret' before the
\* action formula is evaluated)
Called(op, id) == ret'.op = op /\ ret'.id = id

CreateStep ==
    /\ ret'.op = "create"
    /\ \E a \in DetailArgs : AppCreateTask(a[1], a[2], a[3], a[4])

\* the task records present in the directory
TaskRecords == {n \in DOMAIN dir : dir[n].kind = "task"}

\* the record file of id holds a task
HasRecord(d, id) ==
    getTaskFilename(id) \in DOMAIN d /\ d[getTaskFilename(id)].kind = "task"

Succeeded(op) == ret.op = op /\ ret.err = "nil"

-----------------------------------------------------------------------------
\* C1: every successful createTask returns an id strictly greater than the
\* id of every task created earlier (creates, deletes, updates, progress and
\* complete calls, rejected creates and re-running Init in between), so the
\* id of a deleted task is never given to a later task.
C1_IdsStrictlyIncrease ==
    [][CreateStep =>
         /\ ret'.err = "nil"
         /\ \A earlier \in assigned : ret'.task[1].ID > earlier]_vars

\* a create that succeeded after task 1 was created and deleted
C1_Witness ==
    /\ Succeeded("create")
    /\ ret.task[1].ID = 2
    /\ 1 \in assigned
    /\ getTaskFilename(1) \notin DOMAIN dir

\* C2: in every reachable state every persisted task has progress in [0,100].
C2_ProgressInRange ==
    \A n \in TaskRecords : dir[n].progress >= 0 /\ dir[n].progress <= 100

\* an out-of-range updateProgress was just refused on an existing task whose
\* progress an earlier call had set to 100
C2_Witness ==
    /\ ret.op = "progress"
    /\ ret.err = "validation"
    /\ HasRecord(dir, ret.id)
    /\ dir[getTaskFilename(ret.id)].progress = 100

\* C3: updateProgress(id, p) on an existing task with p in [0,100] succeeds
\* and stores progress p; with p outside [0,100] it fails with a validation
\* error and leaves every record and both counters unchanged.
C3_UpdateProgress ==
    [][\A id \in IdArgs, p \in ProgressArgs :
         (Called("progress", id) /\ AppUpdateTaskProgress(id, p)) =>
           IF p >= 0 /\ p <= 100
           THEN HasRecord(dir, id) =>
                  /\ ret'.err = "nil"
                  /\ GetTask(dir', id).err = "nil"
                  /\ GetTask(dir', id).task.Progress = p
           ELSE /\ ret'.err = "validation"
                /\ dir' = dir
                /\ nextID' = nextID]_vars

\* updateProgress(id, 0) has just lowered a stored progress
C3_Witness ==
    /\ Succeeded("progress")
    /\ HasRecord(dir, ret.id)
    /\ dir[getTaskFilename(ret.id)].progress = 0
    /\ dir[getTaskFilename(ret.id)].completed

\* C4: after a successful updateProgress(id, 100) the stored task is
\* completed, and after a successful completeTask(id) it is completed with
\* progress 100, whatever its progress and completed values were before.
C4_CompletionCoupling ==
    [][\A id \in IdArgs :
         /\ (Called("progress", id) /\ ret'.err = "nil" /\ AppUpdateTaskProgress(id, 100)) =>
               GetTask(dir', id).task.Completed
         /\ (Called("complete", id) /\ ret'.err = "nil" /\ AppCompleteTask(id)) =>
               /\ GetTask(dir', id).task.Completed
               /\ GetTask(dir', id).task.Progress = 100]_vars

\* updateProgress(id, 100) has just succeeded and the task is completed
C4_Witness ==
    /\ Succeeded("progress")
    /\ HasRecord(dir, ret.id)
    /\ dir[getTaskFilename(ret.id)].progress = 100
    /\ dir[getTaskFilename(ret.id)].completed

\* the Go string holds no byte that json.Marshal would replace
ValidUTF8(s) == \A i \in 1..Len(s) : s[i] # InvalidByte

\* get(id) returns the caller's four values, the id, progress 0, not completed
RoundTrips(d, id, a) ==
    LET g == GetTask(d, id) IN
    /\ g.err = "nil"
    /\ g.task.ID = id
    /\ g.task.Title = a[1]
    /\ g.task.Description = a[2]
    /\ g.task.DueDate = a[3]
    /\ g.task.Priority = a[4]
    /\ g.task.Progress = 0
    /\ g.task.Completed = FALSE

\* C5 as stated: for every non-empty title, description, due date (also the
\* unset one) and priority, a successful create followed by get of the
\* returned id yields the supplied values, the id, progress 0, completed false.
C5_RoundTripEveryString ==
    [][\A a \in DetailArgs :
         (/\ ret'.op = "create" /\ ret'.err = "nil"
          /\ AppCreateTask(a[1], a[2], a[3], a[4])) =>
            RoundTrips(dir', ret'.task[1].ID, a)]_vars

\* C5 amended: the same round trip for every title and description that is
\* valid UTF-8.
C5_RoundTripValidUTF8 ==
    [][\A a \in DetailArgs :
         (/\ ret'.op = "create" /\ ret'.err = "nil"
          /\ ValidUTF8(a[1]) /\ ValidUTF8(a[2])
          /\ AppCreateTask(a[1], a[2], a[3], a[4])) =>
            RoundTrips(dir', ret'.task[1].ID, a)]_vars

\* a create with a description, a due date and priority Critical has just
\* succeeded and its record reads back
C5_Witness ==
    /\ Succeeded("create")
    /\ ValidUTF8(ret.task[1].Title)
    /\ RoundTrips(dir, ret.task[1].ID, <<<<"b">>, <<"d">>, 7, Critical>>)

-----------------------------------------------------------------------------
(* A project directory that also holds what the user or other tools put    *)
(* there: records the store wrote earlier, unreadable records, a          *)
(* directory, and files under other names.                                 *)

\* a record as CreateTask writes it
StoredRecord(id) ==
    MarshalTask([NewTask(<<"a">>, <<>>, ZeroTime, Low)
                   EXCEPT !.ID = id, !.CreatedAt = 1, !.UpdatedAt = 1])

\* task_01.json, task_x.json, task_1.txt
PaddedName == TaskPrefix \o <<"0", "1">> \o JsonSuffix
NonNumericName == TaskPrefix \o <<"x">> \o JsonSuffix
OtherSuffixName == TaskPrefix \o <<"1", ".", "t", "x", "t">>

\* the record file of id: absent, written by the store, or unreadable
RecordChoices == {"absent", "task", "garbage"}

WithRecord(d, id, choice) ==
    IF choice = "task" THEN WriteFile(d, getTaskFilename(id), StoredRecord(id))
    ELSE IF choice = "garbage" THEN WriteFile(d, getTaskFilename(id), GarbageData)
    ELSE d

WithEntry(d, present, name, data) ==
    IF present THEN WriteFile(d, name, data) ELSE d

InitDir ==
    /\ \E c1 \in RecordChoices, c2 \in RecordChoices, c10 \in RecordChoices,
          subdir \in BOOLEAN, padded \in BOOLEAN, nonNumeric \in BOOLEAN,
          otherSuffix \in BOOLEAN, counter \in BOOLEAN :
          dir = WithEntry(
                  WithEntry(
                    WithEntry(
                      WithEntry(
                        WithEntry(
                          WithRecord(WithRecord(WithRecord(<<>>, 1, c1), 2, c2), 10, c10),
                          subdir, getTaskFilename(3), DirEntry),
                        padded, PaddedName, GarbageData),
                      nonNumeric, NonNumericName, StoredRecord(5)),
                    otherSuffix, OtherSuffixName, StoredRecord(1)),
                  counter, counterFile, MarshalCounter(11))
    /\ nextID = 0
    /\ inited = FALSE
    /\ now = 1
    /\ ret = Return("new", 0, "nil", <<>>, <<>>)
    /\ assigned = {}
    /\ InitInflight

NextDir ==
    \/ Initialize
    \/ AppGetAllTasks
    \/ \E id \in IdArgs : AppGetTask(id)
    \/ \E id \in IdArgs : AppDeleteTask(id)

SpecDir == InitDir /\ [][NextDir]_vars

\* the name is the one getTaskFilename gives to some integer id
WellNamed(name) ==
    LET idStr == TrimSuffix(TrimPrefix(name, TaskPrefix), JsonSuffix) IN
    /\ HasPrefix(name, TaskPrefix)
    /\ HasSuffix(name, JsonSuffix)
    /\ ParseInt(idStr).err = "nil"
    /\ name = getTaskFilename(ParseInt(idStr).n)

\* the well-named files of the directory that decode as a task
ListedNames == {n \in DOMAIN dir : WellNamed(n) /\ dir[n].kind = "task"}

\* C6: listAll returns exactly the tasks that have a well-named
\* (task_<integer>.json) and decodable record, each exactly once, by
\* ascending id; the counter record, foreign files, misnamed entries and
\* undecodable records are skipped without an error, and an empty store
\* yields the empty sequence.
C6_ListAll ==
    ret.op = "list" =>
      /\ ret.err = "nil"
      /\ Len(ret.tasks) = Cardinality(ListedNames)
      /\ \A n \in ListedNames :
            \E i \in 1..Len(ret.tasks) : MarshalTask(ret.tasks[i]) = dir[n]
      /\ \A i \in 1..Len(ret.tasks), j \in 1..Len(ret.tasks) :
            i < j => ret.tasks[i].ID < ret.tasks[j].ID

-----------------------------------------------------------------------------
NoRecordFile(d, id) == getTaskFilename(id) \notin DOMAIN d

ListedIds(d) == {GetAllTasks(d)[i].ID : i \in 1..Len(GetAllTasks(d))}

\* C7: delete(id) on an existing task removes its record for good: get(id)
\* right after fails with not found, listAll no longer shows the task, and
\* no later operation makes a record with that id exist again; delete on an
\* id with no record fails with not found.
C7_DeleteIsPermanent ==
    [][\A id \in IdArgs :
         /\ (Called("delete", id) /\ AppDeleteTask(id)) =>
              IF NoRecordFile(dir, id)
              THEN ret'.err = "not_found" /\ dir' = dir
              ELSE /\ ret'.err = "nil"
                   /\ GetTask(dir', id).err = "not_found"
                   /\ id \notin ListedIds(dir')
         /\ (id \in assigned /\ NoRecordFile(dir, id)) => NoRecordFile(dir', id)]_vars

\* task 1 was deleted, a later create got id 2, and delete(1) is refused
C7_Witness ==
    /\ ret.op = "delete"
    /\ ret.err = "not_found"
    /\ ret.id = 1
    /\ assigned = {1, 2}
    /\ NoRecordFile(dir, 1)

\* the counter record holds n
CounterReads(d, n) ==
    /\ counterFile \in DOMAIN d
    /\ UnmarshalCounter(d[counterFile]).err = "nil"
    /\ UnmarshalCounter(d[counterFile]).NextID = n

\* C8: on a freshly initialised store the successful creates return
\* 1, 2, ..., n in that order, and afterwards the persisted counter reads
\* n+1 and equals the in-memory counter.
C8_ConsecutiveIds ==
    inited =>
      /\ CounterReads(dir, nextID)
      /\ assigned = 1..(nextID - 1)
      /\ Succeeded("create") => ret.task[1].ID = nextID - 1

\* two creates done: the second returned 2 and the counter record reads 3
C8_Witness ==
    /\ Succeeded("create")
    /\ ret.task[1].ID = 2
    /\ assigned = {1, 2}
    /\ CounterReads(dir, 3)
    /\ nextID = 3

\* C9: a rejected call leaves the persisted state untouched: createTask with
\* an empty title fails with a validation error, and getTask, updateProgress
\* (in range), completeTask, updateTaskDetails and the store's update on an
\* id that has no record fail with not found; no record is created or
\* modified and neither counter changes.
C9_RejectedCallsChangeNothing ==
    [][/\ \A a \in DetailArgs :
            (/\ a[1] = <<>>
             /\ ret'.op = "create"
             /\ \/ AppCreateTaskRejected(a[1], a[2], a[3], a[4])
                \/ AppCreateTask(a[1], a[2], a[3], a[4])) =>
               /\ ret'.err = "validation"
               /\ dir' = dir /\ nextID' = nextID
       /\ \A id \in IdArgs :
            (/\ ret'.id = id
             /\ NoRecordFile(dir, id)
             /\ \/ AppGetTask(id)
                \/ AppCompleteTask(id)
                \/ \E p \in ProgressArgs : p >= 0 /\ p <= 100 /\ AppUpdateTaskProgress(id, p)
                \/ \E a \in DetailArgs : AppUpdateTaskDetails(id, a[1], a[2], a[3], a[4])
                \/ \E task \in UpdateArgs : task.ID = id /\ StoreUpdateTask(task)) =>
               /\ ret'.err = "not_found"
               /\ dir' = dir /\ nextID' = nextID]_vars

\* the store's update was just refused for the id of a deleted task
C9_Witness ==
    /\ ret.op = "update"
    /\ ret.err = "not_found"
    /\ ret.id \in assigned
    /\ NoRecordFile(dir, ret.id)

\* C10: Init is idempotent: with no counter record it sets next_id to 1 and
\* persists it; run again after any successful operations it leaves the
\* persisted counter, the in-memory counter and every task record as they
\* were.
C10_InitIdempotent ==
    [][(ret'.op = "init" /\ Initialize) =>
         /\ ret'.err = "nil"
         /\ IF counterFile \notin DOMAIN dir
            THEN /\ nextID' = 1
                 /\ CounterReads(dir', 1)
                 /\ \A n \in DOMAIN dir : n \in DOMAIN dir' /\ dir'[n] = dir[n]
            ELSE /\ nextID' = nextID
                 /\ dir' = dir]_vars

\* Init run again after two creates
C10_Witness ==
    /\ Succeeded("init")
    /\ nextID = 3
    /\ CounterReads(dir, 3)
    /\ HasRecord(dir, 2)

-----------------------------------------------------------------------------
(* The service calls with a wall clock that advances between them *)

\* the wall clock advances (it never goes back)
Tick ==
    /\ now < MaxTime
    /\ now' = now + 1
    /\ UNCHANGED <<dir, nextID, inited, ret, assigned, inflight>>

\* the details passed where the clock advances
ClockDetailArgs == {<<<<"a">>, <<>>, ZeroTime, Low>>, <<<<"b">>, <<"d">>, 7, Critical>>}

ClockIdArgs == 1..(MaxClockNextID - 1)

NextClock ==
    \/ Tick
    \/ Initialize
    \/ \E a \in ClockDetailArgs :
          nextID < MaxClockNextID /\ AppCreateTask(a[1], a[2], a[3], a[4])
    \/ \E id \in ClockIdArgs : AppDeleteTask(id)
    \/ \E id \in ClockIdArgs : AppCompleteTask(id)
    \/ \E id \in ClockIdArgs, progress \in ProgressArgs : AppUpdateTaskProgress(id, progress)
    \/ \E id \in ClockIdArgs, a \in ClockDetailArgs :
          AppUpdateTaskDetails(id, a[1], a[2], a[3], a[4])

SpecClock == Init /\ [][NextClock]_vars

\* the step is a successful call of one of the mutating operations on id
MutatedStep(id) ==
    /\ ret'.id = id
    /\ ret'.err = "nil"
    /\ \/ AppCompleteTask(id)
       \/ \E p \in ProgressArgs : AppUpdateTaskProgress(id, p)
       \/ \E a \in ClockDetailArgs : AppUpdateTaskDetails(id, a[1], a[2], a[3], a[4])

\* C11: with a non-decreasing clock, create stamps created_at = updated_at =
\* the time of the create; every later successful updateTaskDetails,
\* updateProgress and completeTask sets updated_at to the time of that call;
\* and created_at of a stored task never changes.
C11_Timestamps ==
    [][/\ (CreateStep /\ ret'.err = "nil") =>
            /\ GetTask(dir', ret'.task[1].ID).task.CreatedAt = now
            /\ GetTask(dir', ret'.task[1].ID).task.UpdatedAt = now
            /\ ret'.task[1].CreatedAt = ret'.task[1].UpdatedAt
       /\ \A id \in ClockIdArgs :
            /\ MutatedStep(id) => GetTask(dir', id).task.UpdatedAt = now
            /\ (HasRecord(dir, id) /\ HasRecord(dir', id)) =>
                  GetTask(dir', id).task.CreatedAt = GetTask(dir, id).task.CreatedAt]_vars

\* a task created at time 1 was completed at time 2
C11_Witness ==
    /\ Succeeded("complete")
    /\ now = 2
    /\ HasRecord(dir, ret.id)
    /\ dir[getTaskFilename(ret.id)].created_at = 1
    /\ dir[getTaskFilename(ret.id)].updated_at = 2

-----------------------------------------------------------------------------
(* FileStorage.CreateTask statement by statement, for the states in the
   middle of a create *)

\* a Lock that never waits
TryLock_NoMutex(m) == TRUE

\* s.mu.Lock() returns when no worker holds the mutex
TryLock(m) == m = 0

\* the call record of a create that is at statement pc
CreateCall(pc, id, task) ==
    [pc |-> pc, op |-> "create", id |-> id, arg |-> <<>>, task |-> <<task>>]

\* no worker is in the middle of a call
AllIdle == \A w \in Workers : calls[w].pc = "idle"

\* App.CreateTask builds the task, FileStorage.CreateTask takes the mutex
CreateTaskLock(w, title, desc, dueDate, priority) ==
    /\ inited
    /\ calls[w].pc = "idle"
    /\ nextID < MaxNextID
    /\ ~TitleRejected(title)
    /\ TryLock(mu)
    /\ mu' = w
    /\ calls' = [calls EXCEPT ![w] =
                    CreateCall("assign", 0, NewTask(title, desc, dueDate, priority))]
    /\ UNCHANGED <<dir, nextID, inited, now, ret, assigned, skipped, base, insts>>

\* task.ID = s.nextID
CreateTaskAssign(w) ==
    /\ calls[w].pc = "assign"
    /\ calls' = [calls EXCEPT ![w] =
                    CreateCall("increment", nextID,
                               [calls[w].task[1] EXCEPT !.ID = nextID])]
    /\ UNCHANGED <<dir, nextID, inited, now, ret, assigned, mu, skipped, base, insts>>

\* s.nextID++ and the two timestamps
CreateTaskIncrement(w) ==
    /\ calls[w].pc = "increment"
    /\ nextID' = nextID + 1
    /\ calls' = [calls EXCEPT ![w] =
                    CreateCall("counter", calls[w].id,
                               [calls[w].task[1] EXCEPT !.CreatedAt = now,
                                                        !.UpdatedAt = now])]
    /\ UNCHANGED <<dir, inited, now, ret, assigned, mu, skipped, base, insts>>

\* s.saveCounter()
CreateTaskSaveCounter(w) ==
    /\ calls[w].pc = "counter"
    /\ dir' = saveCounter(dir, nextID)
    /\ calls' = [calls EXCEPT ![w].pc = "record"]
    /\ UNCHANGED <<nextID, inited, now, ret, assigned, mu, skipped, base, insts>>

\* s.saveTask(task) returns nil; the deferred Unlock; the task goes back to
\* the caller
CreateTaskSaveTask(w) ==
    /\ calls[w].pc = "record"
    /\ dir' = saveTask(dir, calls[w].task[1])
    /\ mu' = 0
    /\ calls' = [calls EXCEPT ![w] = IdleCall]
    /\ ret' = Return("create", calls[w].id, "nil", calls[w].task, <<>>)
    /\ assigned' = assigned \cup {calls[w].id}
    /\ UNCHANGED <<nextID, inited, now, skipped, base, insts>>

\* s.saveTask(task) returns an error; the deferred Unlock; the id is spent
CreateTaskSaveTaskFails(w, truncated) ==
    /\ calls[w].pc = "record"
    /\ dir' = WriteFileFailed(dir, getTaskFilename(calls[w].id), truncated)
    /\ mu' = 0
    /\ calls' = [calls EXCEPT ![w] = IdleCall]
    /\ ret' = Return("create", 0, "write", <<>>, <<>>)
    /\ skipped' = skipped \cup {calls[w].id}
    /\ UNCHANGED <<nextID, inited, now, assigned, base, insts>>

\* the process dies: the store instance and the calls in it are gone, the
\* directory stays as it is; a create that had persisted the counter leaves
\* its id behind
Crash ==
    /\ inited
    /\ inited' = FALSE
    /\ nextID' = 0
    /\ mu' = 0
    /\ calls' = [w \in Workers |-> IdleCall]
    /\ skipped' = skipped \cup {calls[w].id : w \in {v \in Workers : calls[v].pc = "record"}}
    /\ ret' = Return("crash", 0, "nil", <<>>, <<>>)
    /\ UNCHANGED <<dir, now, assigned, base, insts>>

\* one invocation after another, each of which can die in the middle of its
\* create or have its record write fail
NextCrash ==
    \/ AllIdle /\ Initialize
    \/ \E id \in IdArgs : AllIdle /\ AppDeleteTask(id)
    \/ \E a \in DetailArgs : CreateTaskLock(1, a[1], a[2], a[3], a[4])
    \/ CreateTaskAssign(1)
    \/ CreateTaskIncrement(1)
    \/ CreateTaskSaveCounter(1)
    \/ CreateTaskSaveTask(1)
    \/ \E truncated \in BOOLEAN : CreateTaskSaveTaskFails(1, truncated)
    \/ Crash

SpecCrash == Init /\ [][NextCrash]_vars

\* the ids for which the directory holds a file under the record name
RecordFileIds == {id \in 1..MaxNextID : ~NoRecordFile(dir, id)}

\* the ids the creates in flight have taken
TakenIds == {calls[w].id : w \in {v \in Workers : calls[v].pc \in {"increment", "counter", "record"}}}

\* C12: create persists the incremented counter before it writes the record:
\* in every state (between the two writes, after a crash there, after a
\* failed record write) every record file has an id below the persisted
\* next_id; an id whose create was interrupted after the counter write or
\* failed at the record write is never taken by a later create.
C12_CounterPersistedFirst ==
    /\ \A id \in RecordFileIds : \E n \in 1..(MaxNextID + 1) : CounterReads(dir, n) /\ id < n
    /\ skipped \cap assigned = {}
    /\ skipped \cap TakenIds = {}
    /\ \A w \in Workers : calls[w].pc = "record" => CounterReads(dir, calls[w].id + 1)

\* a create died between its two writes, the next invocation created a task:
\* the id left behind has no record and the new task got the id after it
C12_Witness ==
    /\ Succeeded("create")
    /\ ret.id - 1 \in skipped
    /\ NoRecordFile(dir, ret.id - 1)
    /\ HasRecord(dir, ret.id)
    /\ CounterReads(dir, ret.id + 1)

-----------------------------------------------------------------------------
(* Concurrent creates on one store instance *)

NextMutex ==
    \/ TryLock(mu) /\ Initialize
    \/ \E w \in Workers, a \in DetailArgs : CreateTaskLock(w, a[1], a[2], a[3], a[4])
    \/ \E w \in Workers : CreateTaskAssign(w)
    \/ \E w \in Workers : CreateTaskIncrement(w)
    \/ \E w \in Workers : CreateTaskSaveCounter(w)
    \/ \E w \in Workers : CreateTaskSaveTask(w)

SpecMutex == Init /\ [][NextMutex]_vars

\* worker w has taken an id in the create it is in
HoldsId(w) == calls[w].pc \in {"increment", "counter", "record"}

\* C13: creates running concurrently on one store instance never take the
\* same id, never return an id that was returned before, never write over a
\* record another create wrote, and when every call has returned the
\* persisted next_id equals the in-memory counter and exceeds every id
\* returned.
C13_CreatesAreAtomic ==
    [][/\ \A w \in Workers : \A v \in Workers \ {w} :
             (HoldsId(w) /\ HoldsId(v))' => calls'[w].id # calls'[v].id
       /\ \A w \in Workers : HoldsId(w)' => calls'[w].id \notin assigned'
       /\ \A w \in Workers :
             (calls[w].pc = "record" /\ calls'[w].pc = "idle") =>
                /\ NoRecordFile(dir, calls[w].id)
                /\ calls[w].id \notin assigned
                /\ dir'[getTaskFilename(calls[w].id)] = MarshalTask(calls[w].task[1])
       /\ (AllIdle /\ inited)' =>
             /\ CounterReads(dir', nextID')
             /\ \A id \in assigned' : id < nextID']_vars

\* one worker is inside its create and holds the mutex after the other
\* worker's create has returned
C13_Witness ==
    /\ \E w \in Workers : mu = w /\ calls[w].pc = "record" /\ calls[w].id = 2
    /\ assigned = {1}
    /\ HasRecord(dir, 1)
    /\ CounterReads(dir, 3)

-----------------------------------------------------------------------------
(* The update, complete, progress and delete calls statement by statement,
   two of them running at once on one store instance (none of them takes
   the mutex) *)

\* the call record of worker w's call op(id, arg) at statement pc
Call(pc, op, id, arg, task) ==
    [pc |-> pc, op |-> op, id |-> id, arg |-> arg, task |-> task]

\* the first of the concurrent calls to begin remembers the directory
Begin == base' = IF AllIdle THEN dir ELSE base

\* the s.GetTask(id) at the head of a call: on an error the call returns it,
\* otherwise the call goes on to statement pc with the task it read
ReadStep(w, op, id, arg, pc) ==
    LET g == GetTask(dir, id) IN
    IF g.err # "nil"
    THEN /\ calls' = [calls EXCEPT ![w] = Call("done", op, id, arg, <<>>)]
         /\ ret' = Return(op, id, g.err, <<>>, <<>>)
    ELSE /\ calls' = [calls EXCEPT ![w] = Call(pc, op, id, arg, <<g.task>>)]
         /\ ret' = ret

\* the s.saveTask(task) at the end of a call
WriteStep(w, task) ==
    /\ dir' = saveTask(dir, task)
    /\ calls' = [calls EXCEPT ![w].pc = "done"]
    /\ ret' = Return(calls[w].op, calls[w].id, "nil", <<>>, <<>>)

\* FileStorage.CompleteTask: s.GetTask(id)
CompleteTaskRead(w, id) ==
    /\ inited
    /\ calls[w].pc = "idle"
    /\ Begin
    /\ ReadStep(w, "complete", id, <<>>, "write")
    /\ UNCHANGED <<dir, nextID, inited, now, assigned, mu, skipped, insts>>

\* FileStorage.CompleteTask: the three assignments and s.saveTask(task)
CompleteTaskWrite(w) ==
    /\ calls[w].pc = "write"
    /\ calls[w].op = "complete"
    /\ WriteStep(w, [calls[w].task[1] EXCEPT !.Completed = TRUE, !.Progress = 100,
                                             !.UpdatedAt = now])
    /\ UNCHANGED <<nextID, inited, now, assigned, mu, skipped, base, insts>>

\* App.UpdateTaskProgress: the range check, then FileStorage.UpdateTaskProgress:
\* s.GetTask(id)
UpdateTaskProgressRead(w, id, progress) ==
    /\ inited
    /\ calls[w].pc = "idle"
    /\ Begin
    /\ IF ProgressRejected(progress)
       THEN /\ calls' = [calls EXCEPT ![w] = Call("done", "progress", id, <<progress>>, <<>>)]
            /\ ret' = Return("progress", id, "validation", <<>>, <<>>)
       ELSE ReadStep(w, "progress", id, <<progress>>, "write")
    /\ UNCHANGED <<dir, nextID, inited, now, assigned, mu, skipped, insts>>

\* FileStorage.UpdateTaskProgress: the assignments and s.saveTask(task)
UpdateTaskProgressWrite(w) ==
    /\ calls[w].pc = "write"
    /\ calls[w].op = "progress"
    /\ WriteStep(w, [calls[w].task[1] EXCEPT
                        !.Progress = calls[w].arg[1],
                        !.UpdatedAt = now,
                        !.Completed = IF calls[w].arg[1] = 100 THEN TRUE ELSE @])
    /\ UNCHANGED <<nextID, inited, now, assigned, mu, skipped, base, insts>>

\* App.UpdateTaskDetails: a.GetTask(id)
UpdateTaskDetailsRead(w, id, a) ==
    /\ inited
    /\ calls[w].pc = "idle"
    /\ Begin
    /\ ReadStep(w, "details", id, a, "check")
    /\ UNCHANGED <<dir, nextID, inited, now, assigned, mu, skipped, insts>>

\* App.UpdateTaskDetails: the four assignments, then FileStorage.UpdateTask:
\* the s.GetTask(task.ID) that checks the record exists
UpdateTaskDetailsCheck(w) ==
    /\ calls[w].pc = "check"
    /\ LET c == calls[w]
           g == GetTask(dir, c.id)
       IN  IF g.err # "nil"
           THEN /\ calls' = [calls EXCEPT ![w].pc = "done"]
                /\ ret' = Return("details", c.id, g.err, <<>>, <<>>)
           ELSE /\ calls' = [calls EXCEPT ![w] =
                               Call("write", "details", c.id, c.arg,
                                    <<WithDetails(c.task[1], c.arg[1], c.arg[2],
                                                  c.arg[3], c.arg[4])>>)]
                /\ ret' = ret
    /\ UNCHANGED <<dir, nextID, inited, now, assigned, mu, skipped, base, insts>>

\* FileStorage.UpdateTask: task.UpdatedAt = time.Now() and s.saveTask(task)
UpdateTaskDetailsWrite(w) ==
    /\ calls[w].pc = "write"
    /\ calls[w].op = "details"
    /\ WriteStep(w, [calls[w].task[1] EXCEPT !.UpdatedAt = now])
    /\ UNCHANGED <<nextID, inited, now, assigned, mu, skipped, base, insts>>

\* FileStorage.DeleteTask: os.Stat(filename)
DeleteTaskStat(w, id) ==
    /\ inited
    /\ calls[w].pc = "idle"
    /\ Begin
    /\ IF NoRecordFile(dir, id)
       THEN /\ calls' = [calls EXCEPT ![w] = Call("done", "delete", id, <<>>, <<>>)]
            /\ ret' = Return("delete", id, "not_found", <<>>, <<>>)
       ELSE /\ calls' = [calls EXCEPT ![w] = Call("remove", "delete", id, <<>>, <<>>)]
            /\ ret' = ret
    /\ UNCHANGED <<dir, nextID, inited, now, assigned, mu, skipped, insts>>

\* FileStorage.DeleteTask: os.Remove(filename), which fails when the file is
\* gone by now
DeleteTaskRemove(w) ==
    /\ calls[w].pc = "remove"
    /\ LET name == getTaskFilename(calls[w].id) IN
       IF name \in DOMAIN dir
       THEN /\ dir' = Remove(dir, name)
            /\ ret' = Return("delete", calls[w].id, "nil", <<>>, <<>>)
       ELSE /\ dir' = dir
            /\ ret' = Return("delete", calls[w].id, "write", <<>>, <<>>)
    /\ calls' = [calls EXCEPT ![w].pc = "done"]
    /\ UNCHANGED <<nextID, inited, now, assigned, mu, skipped, base, insts>>

\* some tasks are created, then each worker makes one call
NextRace ==
    \/ AllIdle /\ Initialize
    \/ \E a \in ClockDetailArgs : AllIdle /\ AppCreateTask(a[1], a[2], a[3], a[4])
    \/ \E w \in Workers, id \in IdArgs : CompleteTaskRead(w, id)
    \/ \E w \in Workers : CompleteTaskWrite(w)
    \/ \E w \in Workers, id \in IdArgs, progress \in ProgressArgs :
          UpdateTaskProgressRead(w, id, progress)
    \/ \E w \in Workers : UpdateTaskProgressWrite(w)
    \/ \E w \in Workers, id \in IdArgs, a \in ClockDetailArgs : UpdateTaskDetailsRead(w, id, a)
    \/ \E w \in Workers : UpdateTaskDetailsCheck(w)
    \/ \E w \in Workers : UpdateTaskDetailsWrite(w)
    \/ \E w \in Workers, id \in IdArgs : DeleteTaskStat(w, id)
    \/ \E w \in Workers : DeleteTaskRemove(w)

SpecRace == Init /\ [][NextRace]_vars

\* the directory after the finished call c is run alone on directory d
Sequential(c, d) ==
    IF c.op = "complete" THEN CompleteTask(d, c.id, now).dir
    ELSE IF c.op = "progress"
         THEN IF ProgressRejected(c.arg[1]) THEN d
              ELSE UpdateTaskProgress(d, c.id, c.arg[1], now).dir
    ELSE IF c.op = "details"
         THEN LET g == GetTask(d, c.id) IN
              IF g.err # "nil" THEN d
              ELSE UpdateTask(d, WithDetails(g.task, c.arg[1], c.arg[2], c.arg[3],
                                             c.arg[4]), now).dir
    ELSE IF c.op = "delete" THEN DeleteTask(d, c.id).dir
    ELSE d

\* the two calls are one of the pairs on one task id: complete with
\* progress, details with progress, delete with details / complete / progress
RacingPair(c1, c2) ==
    /\ c1.id = c2.id
    /\ \/ {c1.op, c2.op} = {"complete", "progress"}
       \/ {c1.op, c2.op} = {"details", "progress"}
       \/ "delete" \in {c1.op, c2.op} /\ {c1.op, c2.op} \cap {"details", "complete", "progress"} # {}

\* C14: two calls on the same task id issued concurrently on one store
\* instance (complete with progress, details with progress, delete with an
\* update / complete / progress) leave the directory as one of the two
\* sequential orders of the two calls would.
C14_Serialized ==
    (/\ calls[1].pc = "done"
     /\ calls[2].pc = "done"
     /\ RacingPair(calls[1], calls[2]))
    => \/ dir = Sequential(calls[2], Sequential(calls[1], base))
       \/ dir = Sequential(calls[1], Sequential(calls[2], base))

-----------------------------------------------------------------------------
(* Two invocations of the program on the same project directory, each with
   the store instance it built itself: Init, then one create *)

\* main: NewFileStorage and store.Init() of process p
ProcInit(p) ==
    /\ calls[p].pc = "idle"
    /\ LET r == FileStorageInit(dir, 0) IN
       /\ r.err = "nil"
       /\ dir' = r.dir
       /\ insts' = [insts EXCEPT ![p] = [nextID |-> r.nextID, loaded |-> r.nextID]]
    /\ calls' = [calls EXCEPT ![p].pc = "ready"]
    /\ UNCHANGED <<nextID, inited, now, ret, assigned, mu, skipped, base>>

\* the create command of process p: App.CreateTask builds the task,
\* FileStorage.CreateTask locks the instance's own mutex, takes the instance's
\* nextID, increments it and sets the timestamps
ProcCreateAssign(p, title, desc, dueDate, priority) ==
    /\ calls[p].pc = "ready"
    /\ insts[p].nextID < MaxNextID
    /\ ~TitleRejected(title)
    /\ calls' = [calls EXCEPT ![p] =
                    CreateCall("counter", insts[p].nextID,
                               [NewTask(title, desc, dueDate, priority) EXCEPT
                                   !.ID = insts[p].nextID,
                                   !.CreatedAt = now, !.UpdatedAt = now])]
    /\ insts' = [insts EXCEPT ![p].nextID = @ + 1]
    /\ UNCHANGED <<dir, nextID, inited, now, ret, assigned, mu, skipped, base>>

\* s.saveCounter() of process p
ProcSaveCounter(p) ==
    /\ calls[p].pc = "counter"
    /\ dir' = saveCounter(dir, insts[p].nextID)
    /\ calls' = [calls EXCEPT ![p].pc = "record"]
    /\ UNCHANGED <<nextID, inited, now, ret, assigned, mu, skipped, base, insts>>

\* s.saveTask(task) of process p; the command prints the id
ProcSaveTask(p) ==
    /\ calls[p].pc = "record"
    /\ dir' = saveTask(dir, calls[p].task[1])
    /\ calls' = [calls EXCEPT ![p].pc = "done"]
    /\ ret' = Return("create", calls[p].id, "nil", calls[p].task, <<>>)
    /\ assigned' = assigned \cup {calls[p].id}
    /\ UNCHANGED <<nextID, inited, now, mu, skipped, base, insts>>

\* process p ends; the next invocation starts from nothing
ProcExit(p) ==
    /\ calls[p].pc = "done"
    /\ calls' = [calls EXCEPT ![p] = IdleCall]
    /\ insts' = [insts EXCEPT ![p] = NoInstance]
    /\ UNCHANGED <<dir, nextID, inited, now, ret, assigned, mu, skipped, base>>

NextProcs ==
    \/ \E p \in Workers : ProcInit(p)
    \/ \E p \in Workers, a \in ClockDetailArgs : ProcCreateAssign(p, a[1], a[2], a[3], a[4])
    \/ \E p \in Workers : ProcSaveCounter(p)
    \/ \E p \in Workers : ProcSaveTask(p)
    \/ \E p \in Workers : ProcExit(p)

SpecProcs == Init /\ [][NextProcs]_vars

\* process p has taken an id in this invocation
ProcHoldsId(p) == calls[p].pc \in {"counter", "record", "done"}

\* C15: the lock does not reach across processes: whenever two invocations
\* on one directory, each with its own store instance, have loaded the same
\* persisted counter value, their creates take the same id, and the record
\* write of the later one replaces the record the earlier one wrote.
C15_ProcessesCollide ==
    [][\A p \in Workers : \A q \in Workers \ {p} :
          /\ (ProcHoldsId(p) /\ ProcHoldsId(q) /\ insts[p].loaded = insts[q].loaded)' =>
                calls'[p].id = calls'[q].id
          /\ (/\ calls[p].pc = "record"
              /\ calls'[p].pc = "done"
              /\ calls[q].pc = "done"
              /\ insts[p].loaded = insts[q].loaded) =>
                /\ dir[getTaskFilename(calls[q].id)] = MarshalTask(calls[q].task[1])
                /\ getTaskFilename(calls[p].id) = getTaskFilename(calls[q].id)
                /\ dir'[getTaskFilename(calls[q].id)] = MarshalTask(calls[p].task[1])]_vars

\* both processes loaded 1 and both creates returned id 1; the directory
\* holds the second writer's task and the first writer's task is gone
C15_Witness ==
    /\ calls[1].pc = "done"
    /\ calls[2].pc = "done"
    /\ insts[1].loaded = 1
    /\ insts[2].loaded = 1
    /\ calls[1].id = 1
    /\ calls[2].id = 1
    /\ calls[1].task[1].Title # calls[2].task[1].Title
    /\ dir[getTaskFilename(1)] = MarshalTask(calls[2].task[1])
    /\ TaskRecords = {getTaskFilename(1)}

-----------------------------------------------------------------------------
\* the record of id in directory e carries the four values of a and, apart
\* from updated_at, everything else the record of id in directory d carries
DetailsReplaced(d, e, id, a) ==
    LET old == GetTask(d, id).task
        new == GetTask(e, id) IN
    /\ new.err = "nil"
    /\ new.task.Title = a[1]
    /\ new.task.Description = a[2]
    /\ new.task.DueDate = a[3]
    /\ new.task.Priority = a[4]
    /\ new.task.ID = old.ID
    /\ new.task.Progress = old.Progress
    /\ new.task.Completed = old.Completed
    /\ new.task.CreatedAt = old.CreatedAt

\* directories d and e hold the same files with the same contents, the
\* record file of id aside
OthersUntouched(d, e, id) ==
    /\ DOMAIN e = DOMAIN d
    /\ \A n \in DOMAIN d \ {getTaskFilename(id)} : e[n] = d[n]

\* C16 as stated: updateTaskDetails on an existing task replaces title,
\* description, due_date and priority with exactly the supplied values and
\* leaves id, progress, completed and created_at as they were; no other
\* record, not the counter file and not the in-memory counter changes.
C16_DetailsReplaceEveryString ==
    [][\A id \in IdArgs :
         (Called("details", id) /\ HasRecord(dir, id)) =>
            \A a \in DetailArgs :
               AppUpdateTaskDetails(id, a[1], a[2], a[3], a[4]) =>
                  /\ ret'.err = "nil"
                  /\ DetailsReplaced(dir, dir', id, a)
                  /\ OthersUntouched(dir, dir', id)
                  /\ nextID' = nextID]_vars

\* C16 amended: the same for every title and description that is valid UTF-8.
C16_DetailsReplaceValidUTF8 ==
    [][\A id \in IdArgs :
         (Called("details", id) /\ HasRecord(dir, id)) =>
            \A a \in DetailArgs :
               (/\ ValidUTF8(a[1]) /\ ValidUTF8(a[2])
                /\ AppUpdateTaskDetails(id, a[1], a[2], a[3], a[4])) =>
                  /\ ret'.err = "nil"
                  /\ DetailsReplaced(dir, dir', id, a)
                  /\ OthersUntouched(dir, dir', id)
                  /\ nextID' = nextID]_vars

\* task 1 was completed with a description and a due date, then its details
\* were replaced by an empty description and the unset due date, while task 2
\* is stored as well
C16_Witness ==
    /\ Succeeded("details")
    /\ ret.id = 1
    /\ HasRecord(dir, 1)
    /\ HasRecord(dir, 2)
    /\ dir[getTaskFilename(1)].completed
    /\ dir[getTaskFilename(1)].progress = 100
    /\ dir[getTaskFilename(1)].description = <<>>
    /\ dir[getTaskFilename(1)].due_date = ZeroTime

-----------------------------------------------------------------------------
\* file name of directory d holds the record of a task / of a completed task
StoredTask(d, name) == name \in DOMAIN d /\ d[name].kind = "task"
StoredCompleted(d, name) == StoredTask(d, name) /\ d[name].completed

\* C17: once the stored completed flag of a task is true, no service call
\* (updateProgress with any value, updateTaskDetails, completeTask, or a call
\* on another task) sets it back to false while the record exists; it stays
\* true when progress is lowered below 100.
C17_CompletionIsMonotone ==
    [][\A name \in DOMAIN dir :
         (StoredCompleted(dir, name) /\ StoredTask(dir', name)) =>
            StoredCompleted(dir', name)]_vars

\* the progress of a completed task was just lowered to 0
C17_Witness ==
    /\ Succeeded("progress")
    /\ StoredCompleted(dir, getTaskFilename(ret.id))
    /\ dir[getTaskFilename(ret.id)].progress = 0

====
